---- MODULE Spec2Model ----
(***************************************************************************)
(* WS-Discovery sessions of discovery.go: StartDiscovery (one call = one   *)
(* session) and readDiscoveryResponse.  Strings that the code takes apart  *)
(* are sequences of one-character strings, so that strings.Split,          *)
(* strings.Replace and strings.HasPrefix are computed as Go computes them. *)
(* The UDP stack, the clock, the UUID generator and the XML parser (mxj)   *)
(* are the environment: their results are chosen nondeterministically.     *)
(***************************************************************************)
EXTENDS Integers, Sequences, FiniteSets, TLC

\* ------------------------------------------------------------------ bounds
\* Datagrams delivered to all sessions together.
MaxDatagrams == 2
\* Largest caller-supplied duration, in clock ticks.
MaxDuration == 1
\* Pieces a field of a reply handed to the parser is put together from.
MaxPieces == 3

\* Two callers, each making one call of StartDiscovery.
Sessions == {"s1", "s2"}

\* ----------------------------------------------------------------- strings
Str_uuid == <<"u", "u", "i", "d", ":">>
Str_urn_uuid == <<"u", "r", "n", ":", "u", "u", "i", "d">>
Str_name_scope ==
    <<"o", "n", "v", "i", "f", ":", "/", "/", "w", "w", "w", ".", "o", "n",
      "v", "i", "f", ".", "o", "r", "g", "/", "n", "a", "m", "e", "/">>
Str_space == <<" ">>
Str_underscore == <<"_">>
Str_empty == <<>>

\* strings.Index: the 0-based position of the first sub in s, -1 when absent.
Index(s, sub) ==
    LET hits == {i \in 1..(Len(s) - Len(sub) + 1) :
                    SubSeq(s, i, i + Len(sub) - 1) = sub}
    IN  IF hits = {} THEN 0 - 1
        ELSE (CHOOSE i \in hits : \A j \in hits : i <= j) - 1

\* strings.HasPrefix
HasPrefix(s, prefix) ==
    /\ Len(s) >= Len(prefix)
    /\ SubSeq(s, 1, Len(prefix)) = prefix

\* strings.Replace for a non-empty old: the first n non-overlapping
\* occurrences, all of them when n < 0.
RECURSIVE Replace(_, _, _, _)
Replace(s, old, new, n) ==
    IF n = 0 \/ old = new THEN s
    ELSE LET i == Index(s, old)
         IN  IF i < 0 THEN s
             ELSE SubSeq(s, 1, i) \o new
                  \o Replace(SubSeq(s, i + Len(old) + 1, Len(s)), old, new, n - 1)

\* strings.Split for a non-empty sep: one more piece than there are
\* separators, empty pieces included.
RECURSIVE Split(_, _)
Split(s, sep) ==
    LET i == Index(s, sep)
    IN  IF i < 0 THEN <<s>>
        ELSE <<SubSeq(s, 1, i)>> \o Split(SubSeq(s, i + Len(sep) + 1, Len(s)), sep)

\* ------------------------------------------------------------------ errors
Nil == "nil"
errWrongDiscoveryResponse == "Response is not related to discovery request"
ErrNoXAddr == "Device does not have any xAddr"
\* Errors of the libraries; none of them is the package's own sentinel.
ErrResolve == "net: address resolution failed"
ErrListen == "net: listen failed"
ErrSetDeadline == "net: set deadline failed"
ErrWrite == "net: write failed"
ErrReadTimeout == "net: i/o timeout"
ErrRead == "net: read failed"
ErrXML == "mxj: xml syntax error"

\* Mutant: the type assertion never succeeds.
Timeout_Never(err) == FALSE

\* err.(net.Error) succeeds and Timeout() is true.
Timeout(err) == err = ErrReadTimeout

\* ------------------------------------------------------------------ Device
ZeroDevice == [ID |-> Str_empty, Name |-> Str_empty, XAddr |-> Str_empty]

\* -------------------------------------------------------- reply documents
PathRelatesTo == "Envelope.Header.RelatesTo"
PathAddress == "Envelope.Body.ProbeMatches.ProbeMatch.EndpointReference.Address"
PathScopes == "Envelope.Body.ProbeMatches.ProbeMatch.Scopes"
PathXAddrs == "Envelope.Body.ProbeMatches.ProbeMatch.XAddrs"

\* mxj.NewMapXml: the map of a well-formed document, an error otherwise.
NewMapXml(buffer) ==
    IF buffer.wellFormed THEN [m |-> buffer.doc, err |-> Nil]
    ELSE [m |-> <<>>, err |-> ErrXML]

\* Map.ValueForPathString with the error dropped: "" for an absent path.
ValueForPathString(m, path) ==
    IF path \in DOMAIN m THEN m[path] ELSE Str_empty

\* The loop over the scopes: the first one with the name prefix gives the name.
RECURSIVE ScopesName(_)
ScopesName(scopes) ==
    IF scopes = <<>> THEN Str_empty
    ELSE IF HasPrefix(Head(scopes), Str_name_scope)
         THEN Replace(Replace(Head(scopes), Str_name_scope, Str_empty, 1),
                      Str_underscore, Str_space, 0 - 1)
         ELSE ScopesName(Tail(scopes))

readDiscoveryResponse_FillsBeforeCheck(messageID, buffer) ==
    LET parsed == NewMapXml(buffer)
        mapXML == parsed.m
        responseMessageID == ValueForPathString(mapXML, PathRelatesTo)
        deviceID == Replace(ValueForPathString(mapXML, PathAddress),
                            Str_urn_uuid, Str_empty, 1)
        deviceName == ScopesName(Split(ValueForPathString(mapXML, PathScopes),
                                       Str_space))
        listXAddr == Split(ValueForPathString(mapXML, PathXAddrs), Str_space)
        result == [ID |-> deviceID, Name |-> deviceName, XAddr |-> listXAddr[1]]
    IN  IF parsed.err # Nil THEN [device |-> ZeroDevice, err |-> parsed.err]
        ELSE IF responseMessageID # messageID
             THEN [device |-> result, err |-> errWrongDiscoveryResponse]
        ELSE IF Len(listXAddr) = 0
             THEN [device |-> result, err |-> ErrNoXAddr]
        ELSE [device |-> result, err |-> Nil]

readDiscoveryResponse(messageID, buffer) ==
    LET parsed == NewMapXml(buffer)
        mapXML == parsed.m
        responseMessageID == ValueForPathString(mapXML, PathRelatesTo)
        deviceID == Replace(ValueForPathString(mapXML, PathAddress),
                            Str_urn_uuid, Str_empty, 1)
        deviceName == ScopesName(Split(ValueForPathString(mapXML, PathScopes),
                                       Str_space))
        listXAddr == Split(ValueForPathString(mapXML, PathXAddrs), Str_space)
    IN  IF parsed.err # Nil THEN [device |-> ZeroDevice, err |-> parsed.err]
        ELSE IF responseMessageID # messageID
             THEN [device |-> ZeroDevice, err |-> errWrongDiscoveryResponse]
        ELSE IF Len(listXAddr) = 0
             THEN [device |-> ZeroDevice, err |-> ErrNoXAddr]
        ELSE [device |-> [ID |-> deviceID, Name |-> deviceName,
                          XAddr |-> listXAddr[1]],
              err |-> Nil]

\* ------------------------------------------------------------- environment
\* Texts uuid.NewV4().String() yields; one symbol stands for the 36 characters.
UUIDs == {"A", "B"}
RequestIDOf(u) == Str_uuid \o <<u>>

\* Bodies of probe matches seen on the wire.
BodyCam1 ==
    (PathAddress :> (Str_urn_uuid \o <<":", "1">>))
    @@ (PathScopes :> (<<"t", " ">> \o Str_name_scope \o <<"F", "_", "D">>))
    @@ (PathXAddrs :> <<"h", "1", " ", "h", "2">>)
BodyCam2 ==
    (PathAddress :> (Str_urn_uuid \o <<":", "2">>))
    @@ (PathXAddrs :> <<"h", "3">>)
BodyEmptyXAddrs ==
    (PathAddress :> (Str_urn_uuid \o <<":", "3">>))
    @@ (PathXAddrs :> Str_empty)
BodyNoXAddrs ==
    (PathAddress :> (Str_urn_uuid \o <<":", "4">>))

Garbage == [wellFormed |-> FALSE, doc |-> <<>>]
Document(relatesTo, body) ==
    [wellFormed |-> TRUE, doc |-> (PathRelatesTo :> relatesTo) @@ body]

\* The datagrams the network can deliver to a session's endpoint.
Datagrams ==
    {Garbage}
    \cup {Document(RequestIDOf("A"), b) : b \in {BodyCam1, BodyCam2, BodyEmptyXAddrs}}
    \cup {Document(RequestIDOf("B"), b) : b \in {BodyCam1, BodyNoXAddrs}}

\* ------------------------------------------------------------------- state
VARIABLES
    pc,                \* the statement each session is at
    duration,          \* the caller's argument
    requestID,         \* "uuid:" + a fresh UUID
    discoveryResults,  \* the list being accumulated
    conn,              \* the UDP endpoint: "none", "open" or "closed"
    deferred,          \* the calls deferred so far
    deadline,          \* the endpoint's absolute deadline, once one is set
    deadlineSets,      \* successful SetDeadline calls
    sent,              \* datagrams transmitted by WriteToUDP
    rcvd,              \* the datagrams ReadFromUDP returned, in order
    lastCall,          \* the last library call that can fail, and its error
    ret,               \* what the call returned, "none" while it runs
    now,               \* the clock
    parserCall,        \* the arguments of a call of readDiscoveryResponse
    parserReturn       \* what that call returned, once it has

vars == <<pc, duration, requestID, discoveryResults, conn, deferred, deadline,
          deadlineSets, sent, rcvd, lastCall, ret, now, parserCall, parserReturn>>

NoRet == "none"

\* No call of readDiscoveryResponse made on its own.
NotCalled == [done |-> FALSE, device |-> ZeroDevice, err |-> Nil]

\* No call of StartDiscovery made yet.
SessionsInit ==
    /\ pc = [s \in Sessions |-> "idle"]
    /\ duration = [s \in Sessions |-> 0]
    /\ requestID = [s \in Sessions |-> Str_empty]
    /\ discoveryResults = [s \in Sessions |-> <<>>]
    /\ conn = [s \in Sessions |-> "none"]
    /\ deferred = [s \in Sessions |-> <<>>]
    /\ deadline = [s \in Sessions |-> 0]
    /\ deadlineSets = [s \in Sessions |-> 0]
    /\ sent = [s \in Sessions |-> 0]
    /\ rcvd = [s \in Sessions |-> <<>>]
    /\ lastCall = [s \in Sessions |-> [call |-> "none", err |-> Nil]]
    /\ ret = [s \in Sessions |-> NoRet]
    /\ now = 0

Init ==
    /\ SessionsInit
    /\ parserCall = [messageID |-> Str_empty, buffer |-> Garbage]
    /\ parserReturn = NotCalled

\* ------------------------------------------------------------ StartDiscovery
\* Mutant: the endpoint is left as it is at a return.
RunDeferred_NoClose(s) == conn[s]

\* The deferred calls run at a return: conn.Close() once it is deferred.
RunDeferred(s) ==
    IF deferred[s] = <<>> THEN conn[s] ELSE "closed"

\* Mutant: one endpoint shared by the calls, closed by whichever returns.
Return_ClosesAll(s, results, err, line) ==
    /\ pc' = [pc EXCEPT ![s] = "done"]
    /\ ret' = [ret EXCEPT ![s] = [devices |-> results, err |-> err, line |-> line]]
    /\ conn' = [t \in Sessions |->
                   IF t = s THEN RunDeferred(s)
                   ELSE IF deferred[s] # <<>> /\ conn[t] = "open" THEN "closed"
                   ELSE conn[t]]

\* return results, err at the given line, after the deferred calls.
Return(s, results, err, line) ==
    /\ pc' = [pc EXCEPT ![s] = "done"]
    /\ ret' = [ret EXCEPT ![s] = [devices |-> results, err |-> err, line |-> line]]
    /\ conn' = [conn EXCEPT ![s] = RunDeferred(s)]

\* uuid.NewV4 never repeats a value.
FreshUUIDs == {u \in UUIDs : \A s \in Sessions : requestID[s] # RequestIDOf(u)}

\* The call: discoveryResults := []Device{}, the request identifier and text.
StartDiscovery(s, d, u) ==
    /\ pc[s] = "idle"
    /\ u \in FreshUUIDs
    /\ pc' = [pc EXCEPT ![s] = "resolveLocal"]
    /\ duration' = [duration EXCEPT ![s] = d]
    /\ discoveryResults' = [discoveryResults EXCEPT ![s] = <<>>]
    /\ requestID' = [requestID EXCEPT ![s] = RequestIDOf(u)]
    /\ UNCHANGED <<conn, deferred, deadline, deadlineSets, sent, rcvd, lastCall,
                   ret, now>>
    /\ UNCHANGED <<parserCall, parserReturn>>

\* net.ResolveUDPAddr("udp4", ":0")
ResolveLocal(s, err) ==
    /\ pc[s] = "resolveLocal"
    /\ lastCall' = [lastCall EXCEPT ![s] = [call |-> "ResolveUDPAddr", err |-> err]]
    /\ IF err # Nil
       THEN Return(s, discoveryResults[s], err, 53)
       ELSE /\ pc' = [pc EXCEPT ![s] = "resolveMulticast"]
            /\ UNCHANGED <<ret, conn>>
    /\ UNCHANGED <<duration, requestID, discoveryResults, deferred, deadline,
                   deadlineSets, sent, rcvd, now>>
    /\ UNCHANGED <<parserCall, parserReturn>>

\* Mutant: the error of the second resolution is dropped.
ResolveMulticast_IgnoresError(s, err) ==
    /\ pc[s] = "resolveMulticast"
    /\ lastCall' = [lastCall EXCEPT ![s] = [call |-> "ResolveUDPAddr", err |-> err]]
    /\ pc' = [pc EXCEPT ![s] = "listen"]
    /\ UNCHANGED <<ret, conn, duration, requestID, discoveryResults, deferred,
                   deadline, deadlineSets, sent, rcvd, now>>
    /\ UNCHANGED <<parserCall, parserReturn>>

\* net.ResolveUDPAddr("udp4", "239.255.255.250:3702")
ResolveMulticast(s, err) ==
    /\ pc[s] = "resolveMulticast"
    /\ lastCall' = [lastCall EXCEPT ![s] = [call |-> "ResolveUDPAddr", err |-> err]]
    /\ IF err # Nil
       THEN Return(s, discoveryResults[s], err, 58)
       ELSE /\ pc' = [pc EXCEPT ![s] = "listen"]
            /\ UNCHANGED <<ret, conn>>
    /\ UNCHANGED <<duration, requestID, discoveryResults, deferred, deadline,
                   deadlineSets, sent, rcvd, now>>
    /\ UNCHANGED <<parserCall, parserReturn>>

\* net.ListenUDP and, when it succeeds, defer conn.Close()
ListenUDP(s, err) ==
    /\ pc[s] = "listen"
    /\ lastCall' = [lastCall EXCEPT ![s] = [call |-> "ListenUDP", err |-> err]]
    /\ IF err # Nil
       THEN /\ Return(s, discoveryResults[s], err, 64)
            /\ UNCHANGED deferred
       ELSE /\ pc' = [pc EXCEPT ![s] = "setDeadline"]
            /\ conn' = [conn EXCEPT ![s] = "open"]
            /\ deferred' = [deferred EXCEPT ![s] = <<"conn.Close">> \o @]
            /\ UNCHANGED ret
    /\ UNCHANGED <<duration, requestID, discoveryResults, deadline, deadlineSets,
                   sent, rcvd, now>>
    /\ UNCHANGED <<parserCall, parserReturn>>

\* Mutant: the deadline is not armed.
SetDeadline_NotArmed(s, err) ==
    /\ pc[s] = "setDeadline"
    /\ lastCall' = [lastCall EXCEPT ![s] = [call |-> "SetDeadline", err |-> err]]
    /\ IF err # Nil
       THEN Return(s, discoveryResults[s], err, 71)
       ELSE /\ pc' = [pc EXCEPT ![s] = "send"]
            /\ UNCHANGED <<ret, conn>>
    /\ UNCHANGED <<duration, requestID, discoveryResults, deferred, sent, rcvd,
                   now, deadline, deadlineSets>>
    /\ UNCHANGED <<parserCall, parserReturn>>

\* Mutant: the deadline is the duration added to the zero time.
SetDeadline_FromZero(s, err) ==
    /\ pc[s] = "setDeadline"
    /\ lastCall' = [lastCall EXCEPT ![s] = [call |-> "SetDeadline", err |-> err]]
    /\ IF err # Nil
       THEN /\ Return(s, discoveryResults[s], err, 71)
            /\ UNCHANGED <<deadline, deadlineSets>>
       ELSE /\ pc' = [pc EXCEPT ![s] = "send"]
            /\ deadline' = [deadline EXCEPT ![s] = duration[s]]
            /\ deadlineSets' = [deadlineSets EXCEPT ![s] = @ + 1]
            /\ UNCHANGED <<ret, conn>>
    /\ UNCHANGED <<duration, requestID, discoveryResults, deferred, sent, rcvd,
                   now>>
    /\ UNCHANGED <<parserCall, parserReturn>>

\* conn.SetDeadline(time.Now().Add(duration))
SetDeadline(s, err) ==
    /\ pc[s] = "setDeadline"
    /\ lastCall' = [lastCall EXCEPT ![s] = [call |-> "SetDeadline", err |-> err]]
    /\ IF err # Nil
       THEN /\ Return(s, discoveryResults[s], err, 71)
            /\ UNCHANGED <<deadline, deadlineSets>>
       ELSE /\ pc' = [pc EXCEPT ![s] = "send"]
            /\ deadline' = [deadline EXCEPT ![s] = now + duration[s]]
            /\ deadlineSets' = [deadlineSets EXCEPT ![s] = @ + 1]
            /\ UNCHANGED <<ret, conn>>
    /\ UNCHANGED <<duration, requestID, discoveryResults, deferred, sent, rcvd,
                   now>>
    /\ UNCHANGED <<parserCall, parserReturn>>

\* Mutant: the probe is transmitted twice.
WriteToUDP_Twice(s, err) ==
    /\ pc[s] = "send"
    /\ lastCall' = [lastCall EXCEPT ![s] = [call |-> "WriteToUDP", err |-> err]]
    /\ IF err # Nil
       THEN /\ Return(s, discoveryResults[s], err, 77)
            /\ UNCHANGED sent
       ELSE /\ pc' = [pc EXCEPT ![s] = "read"]
            /\ sent' = [sent EXCEPT ![s] = @ + 2]
            /\ UNCHANGED <<ret, conn>>
    /\ UNCHANGED <<duration, requestID, discoveryResults, deferred, deadline,
                   deadlineSets, rcvd, now>>
    /\ UNCHANGED <<parserCall, parserReturn>>

\* conn.WriteToUDP([]byte(request), multicastAddress)
WriteToUDP(s, err) ==
    /\ pc[s] = "send"
    /\ lastCall' = [lastCall EXCEPT ![s] = [call |-> "WriteToUDP", err |-> err]]
    /\ IF err # Nil
       THEN /\ Return(s, discoveryResults[s], err, 77)
            /\ UNCHANGED sent
       ELSE /\ pc' = [pc EXCEPT ![s] = "read"]
            /\ sent' = [sent EXCEPT ![s] = @ + 1]
            /\ UNCHANGED <<ret, conn>>
    /\ UNCHANGED <<duration, requestID, discoveryResults, deferred, deadline,
                   deadlineSets, rcvd, now>>
    /\ UNCHANGED <<parserCall, parserReturn>>

\* Datagrams delivered so far, to all endpoints.
RECURSIVE DeliveredTo(_)
DeliveredTo(S) ==
    IF S = {} THEN 0
    ELSE LET s == CHOOSE x \in S : TRUE
         IN  Len(rcvd[s]) + DeliveredTo(S \ {s})
Delivered == DeliveredTo(Sessions)

\* What conn.ReadFromUDP can return now: the timeout error once the deadline
\* has passed, a datagram before it, another error at any time.
ReadOutcomes(s) ==
    {[err |-> ErrRead, buffer |-> Garbage]}
    \cup (IF deadlineSets[s] > 0 /\ now >= deadline[s]
          THEN {[err |-> ErrReadTimeout, buffer |-> Garbage]}
          ELSE IF Delivered < MaxDatagrams
               THEN {[err |-> Nil, buffer |-> b] : b \in Datagrams}
               ELSE {})

\* Mutant: the device is put in front of the list.
append_Prepend(list, device) == <<device>> \o list

\* Mutant: the list is overwritten with the new device.
append_Overwrite(list, device) == <<device>>

\* append(discoveryResults, device)
append(list, device) == Append(list, device)

\* Mutant: a fatal parse error returns nil for the list.
HandleReply_DropsResults(s, buffer) ==
    LET res == readDiscoveryResponse(requestID[s], buffer)
    IN  IF res.err # Nil /\ res.err # errWrongDiscoveryResponse
        THEN /\ Return(s, <<>>, res.err, 98)
             /\ UNCHANGED discoveryResults
        ELSE /\ discoveryResults' =
                    [discoveryResults EXCEPT ![s] = append(@, res.device)]
             /\ UNCHANGED <<pc, ret, conn>>

\* Mutant: the sentinel is not told apart from the other errors.
HandleReply_ReturnsSentinel(s, buffer) ==
    LET res == readDiscoveryResponse(requestID[s], buffer)
    IN  IF res.err # Nil
        THEN /\ Return(s, discoveryResults[s], res.err, 98)
             /\ UNCHANGED discoveryResults
        ELSE /\ discoveryResults' =
                    [discoveryResults EXCEPT ![s] = append(@, res.device)]
             /\ UNCHANGED <<pc, ret, conn>>

\* The loop body after a successful read: parse the reply, push the device.
HandleReply(s, buffer) ==
    LET res == readDiscoveryResponse(requestID[s], buffer)
    IN  IF res.err # Nil /\ res.err # errWrongDiscoveryResponse
        THEN /\ Return(s, discoveryResults[s], res.err, 98)
             /\ UNCHANGED discoveryResults
        ELSE /\ discoveryResults' =
                    [discoveryResults EXCEPT ![s] = append(@, res.device)]
             /\ UNCHANGED <<pc, ret, conn>>

\* Mutant: every read error breaks out of the loop.
ReadFailed_AlwaysBreaks(s, err) ==
    /\ Return(s, discoveryResults[s], Nil, 105)
    /\ UNCHANGED discoveryResults

\* Mutant: a timeout goes round the loop again instead of leaving it.
ReadFailed_ContinuesOnTimeout(s, err) ==
    IF Timeout(err)
    THEN UNCHANGED <<pc, ret, conn, discoveryResults>>
    ELSE /\ Return(s, discoveryResults[s], err, 91)
         /\ UNCHANGED discoveryResults

\* The branch "if err != nil" after the read: break on a timeout and return
\* the list with a nil error after the loop, return the error otherwise.
ReadFailed(s, err) ==
    /\ IF Timeout(err)
       THEN Return(s, discoveryResults[s], Nil, 105)
       ELSE Return(s, discoveryResults[s], err, 91)
    /\ UNCHANGED discoveryResults

\* One turn of the loop "for { ... }", through to the return after it.
ReadFromUDP(s, rd) ==
    /\ pc[s] = "read"
    /\ rd \in ReadOutcomes(s)
    /\ lastCall' = [lastCall EXCEPT ![s] =
                       IF rd.err # Nil THEN [call |-> "ReadFromUDP", err |-> rd.err]
                       ELSE [call |-> "NewMapXml", err |-> NewMapXml(rd.buffer).err]]
    /\ rcvd' = [rcvd EXCEPT ![s] = IF rd.err = Nil THEN Append(@, rd.buffer) ELSE @]
    /\ IF rd.err # Nil
       THEN ReadFailed(s, rd.err)
       ELSE HandleReply(s, rd.buffer)
    /\ UNCHANGED <<duration, requestID, deferred, deadline, deadlineSets, sent, now>>
    /\ UNCHANGED <<parserCall, parserReturn>>

\* The clock advances, as long as an armed deadline of a running session is
\* ahead of it.
Tick ==
    /\ \E s \in Sessions : pc[s] \in {"send", "read"} /\ now < deadline[s]
    /\ now' = now + 1
    /\ UNCHANGED <<pc, duration, requestID, discoveryResults, conn, deferred,
                   deadline, deadlineSets, sent, rcvd, lastCall, ret>>
    /\ UNCHANGED <<parserCall, parserReturn>>

Next ==
    \/ \E s \in Sessions, d \in 0..MaxDuration, u \in UUIDs : StartDiscovery(s, d, u)
    \/ \E s \in Sessions, err \in {Nil, ErrResolve} : ResolveLocal(s, err)
    \/ \E s \in Sessions, err \in {Nil, ErrResolve} : ResolveMulticast(s, err)
    \/ \E s \in Sessions, err \in {Nil, ErrListen} : ListenUDP(s, err)
    \/ \E s \in Sessions, err \in {Nil, ErrSetDeadline} : SetDeadline(s, err)
    \/ \E s \in Sessions, err \in {Nil, ErrWrite} : WriteToUDP(s, err)
    \/ \E s \in Sessions : \E rd \in ReadOutcomes(s) : ReadFromUDP(s, rd)
    \/ Tick

Spec == Init /\ [][Next]_vars

\* A statement before the loop: the library call it makes returns.
SetupStep(s) ==
    \/ \E err \in {Nil, ErrResolve} : ResolveLocal(s, err)
    \/ \E err \in {Nil, ErrResolve} : ResolveMulticast(s, err)
    \/ \E err \in {Nil, ErrListen} : ListenUDP(s, err)
    \/ \E err \in {Nil, ErrSetDeadline} : SetDeadline(s, err)
    \/ \E err \in {Nil, ErrWrite} : WriteToUDP(s, err)

\* A read blocked past the deadline returns the timeout.
ReadTimesOut(s) == ReadFromUDP(s, [err |-> ErrReadTimeout, buffer |-> Garbage])

\* One caller on its own.
Alone == "s1"
AloneNext ==
    \/ \E d \in 0..MaxDuration, u \in UUIDs : StartDiscovery(Alone, d, u)
    \/ SetupStep(Alone)
    \/ \E rd \in ReadOutcomes(Alone) : ReadFromUDP(Alone, rd)
    \/ Tick

\* The calling thread runs, time advances, and the deadline wakes a blocked
\* read; nothing is assumed about datagrams arriving or reads failing.
FairSpec ==
    /\ Init
    /\ [][AloneNext]_vars
    /\ WF_vars(Tick)
    /\ WF_vars(SetupStep(Alone))
    /\ WF_vars(ReadTimesOut(Alone))

\* -------------------------------------------- readDiscoveryResponse alone
Str_tab == <<"\t">>
Whitespace == {" ", "\t"}

\* The concatenations of at most n pieces of P.
RECURSIVE Concats(_, _)
Concats(P, n) ==
    IF n = 0 THEN {Str_empty}
    ELSE LET shorter == Concats(P, n - 1)
         IN  shorter \cup {p \o q : p \in P, q \in shorter}

\* Character data as mxj hands it over: no whitespace at either end.
Trimmed(S) ==
    {v \in S : v = Str_empty
               \/ (v[1] \notin Whitespace /\ v[Len(v)] \notin Whitespace)}

AddressPieces ==
    {Str_urn_uuid, <<"u", "r", "n", ":">>, <<"u", "u", "i", "d">>, <<":", "1">>}
ScopePieces ==
    {Str_name_scope \o <<"F", "_", "D">>, Str_name_scope \o <<"a", "_", "b", "_", "c">>,
     <<"t">>, Str_space, Str_tab}
XAddrPieces ==
    {<<"h", "1">>, <<"h", "2">>, Str_space, Str_space \o Str_space, Str_tab}

Body(address, scopes, xAddrs) ==
    (PathAddress :> address) @@ (PathScopes :> scopes) @@ (PathXAddrs :> xAddrs)

\* Replies that differ from BodyCam1 in one field, and the bodies above.
ParserBodies ==
    {Body(a, BodyCam1[PathScopes], BodyCam1[PathXAddrs]) :
        a \in Trimmed(Concats(AddressPieces, MaxPieces))}
    \cup {Body(BodyCam1[PathAddress], sc, BodyCam1[PathXAddrs]) :
             sc \in Trimmed(Concats(ScopePieces, MaxPieces))}
    \cup {Body(BodyCam1[PathAddress], BodyCam1[PathScopes], x) :
             x \in Trimmed(Concats(XAddrPieces, MaxPieces))}
    \cup {BodyCam1, BodyCam2, BodyEmptyXAddrs, BodyNoXAddrs}

\* Buffers handed to the parser: not XML, with a RelatesTo, without one.
ParserBuffers ==
    {Garbage}
    \cup {Document(RequestIDOf(u), b) : u \in UUIDs, b \in ParserBodies}
    \cup {[wellFormed |-> TRUE, doc |-> b] : b \in ParserBodies}

ParserInit ==
    /\ SessionsInit
    /\ parserCall \in [messageID : {RequestIDOf("A")}, buffer : ParserBuffers]
    /\ parserReturn = NotCalled

\* device, err := readDiscoveryResponse(messageID, buffer)
CallParser ==
    /\ ~parserReturn.done
    /\ LET res == readDiscoveryResponse(parserCall.messageID, parserCall.buffer)
       IN  parserReturn' = [done |-> TRUE, device |-> res.device, err |-> res.err]
    /\ UNCHANGED <<pc, duration, requestID, discoveryResults, conn, deferred,
                   deadline, deadlineSets, sent, rcvd, lastCall, ret, now,
                   parserCall>>

ParserSpec == ParserInit /\ [][CallParser]_vars

\* ------------------------------------------------------------------ claims
\* What the claims speak of, read off the datagrams and the library calls
\* and not off the code's own verdicts.
Terminated(s) == pc[s] = "done"
TimedOut(s) == lastCall[s] = [call |-> "ReadFromUDP", err |-> ErrReadTimeout]
ReadBroke(s) == lastCall[s] = [call |-> "ReadFromUDP", err |-> ErrRead]
ParseBroke(s) == lastCall[s] = [call |-> "NewMapXml", err |-> ErrXML]
SetupFailed(s) ==
    /\ lastCall[s].call \in {"ResolveUDPAddr", "ListenUDP"}
    /\ lastCall[s].err # Nil
SendFailed(s) == lastCall[s] = [call |-> "WriteToUDP", err |-> ErrWrite]
Acquired(s) ==
    \/ lastCall[s] = [call |-> "ListenUDP", err |-> Nil]
    \/ lastCall[s].call \in {"SetDeadline", "WriteToUDP", "ReadFromUDP", "NewMapXml"}
InLoop(s) ==
    \/ pc[s] = "read"
    \/ lastCall[s].call \in {"ReadFromUDP", "NewMapXml"}

Correlated(s, b) ==
    /\ b.wellFormed
    /\ PathRelatesTo \in DOMAIN b.doc
    /\ b.doc[PathRelatesTo] = requestID[s]
Uncorrelated(s, b) == b.wellFormed /\ ~Correlated(s, b)
HasAddresses(b) ==
    /\ PathXAddrs \in DOMAIN b.doc
    /\ b.doc[PathXAddrs] # Str_empty
Replies(s) == {i \in 1..Len(rcvd[s]) : TRUE}
CorrelatedReplies(s) == {i \in Replies(s) : Correlated(s, rcvd[s][i])}
AddresslessReplies(s) ==
    {i \in CorrelatedReplies(s) : ~HasAddresses(rcvd[s][i])}

\* C1: a reply whose RelatesTo differs from the session's request identifier
\* adds no entry to the list: the list is never longer than the number of
\* correlated replies received, and a session that got only uncorrelated
\* replies before the timeout returns the empty list and a nil error.
C1_UncorrelatedNeverAdds ==
    \A s \in Sessions :
        /\ Len(discoveryResults[s]) <= Cardinality(CorrelatedReplies(s))
        /\ (Terminated(s) /\ TimedOut(s) /\ CorrelatedReplies(s) = {})
              => (ret[s].devices = <<>> /\ ret[s].err = Nil)

\* C2: N replies before the timeout, each correlated and with a non-empty
\* address list, give exactly N devices, the i-th extracted from the i-th
\* reply received, and a nil error.
C2_AllCorrelatedInArrivalOrder ==
    \A s \in Sessions :
        (/\ Terminated(s)
         /\ TimedOut(s)
         /\ \A i \in Replies(s) :
                Correlated(s, rcvd[s][i]) /\ HasAddresses(rcvd[s][i]))
        => /\ ret[s].err = Nil
           /\ Len(ret[s].devices) = Len(rcvd[s])
           /\ \A i \in Replies(s) :
                  ret[s].devices[i] =
                      readDiscoveryResponse(requestID[s], rcvd[s][i]).device

C2_Witness ==
    \E s \in Sessions :
        /\ Terminated(s)
        /\ TimedOut(s)
        /\ Len(rcvd[s]) = 2
        /\ \A i \in Replies(s) :
               Correlated(s, rcvd[s][i]) /\ HasAddresses(rcvd[s][i])
        /\ ret[s].devices[1] # ret[s].devices[2]

\* C3: a correlated reply whose address list is empty or absent gets an error
\* from readDiscoveryResponse and adds no device, whether the session aborts
\* on it or skips it: the list is shorter than the replies received by at
\* least the number of such replies, and no listed device has an empty XAddr.
C3_AddresslessNeverAdds ==
    \A s \in Sessions :
        /\ \A i \in AddresslessReplies(s) :
               readDiscoveryResponse(requestID[s], rcvd[s][i]).err # Nil
        /\ Len(discoveryResults[s]) + Cardinality(AddresslessReplies(s))
              <= Len(rcvd[s])

\* C4: a read that returns the timeout ends the call with the list accumulated
\* so far and a nil error; with no reply received the list is empty.
C4_TimeoutReturnsAccumulated ==
    [][\A s \in Sessions :
          (pc[s] = "read" /\ TimedOut(s)')
          => /\ Terminated(s)'
             /\ ret'[s].err = Nil
             /\ ret'[s].devices = discoveryResults[s]
             /\ (rcvd[s] = <<>> => ret'[s].devices = <<>>)]_vars

C4_Witness ==
    \E s, t \in Sessions :
        /\ s # t
        /\ Terminated(s) /\ TimedOut(s) /\ ret[s].devices # <<>>
        /\ Terminated(t) /\ TimedOut(t) /\ rcvd[t] = <<>>

\* C5: a payload that does not parse ends the call at once with the parser's
\* error and exactly the devices accumulated before it.
C5_UnparseableAborts ==
    [][\A s \in Sessions :
          (/\ Len(rcvd'[s]) = Len(rcvd[s]) + 1
           /\ ~rcvd'[s][Len(rcvd'[s])].wellFormed)
          => /\ Terminated(s)'
             /\ ret'[s].err = ErrXML
             /\ ret'[s].devices = discoveryResults[s]
             /\ discoveryResults'[s] = discoveryResults[s]]_vars

C5_Witness ==
    \E s \in Sessions :
        /\ Terminated(s)
        /\ ParseBroke(s)
        /\ Len(rcvd[s]) = 2
        /\ Len(ret[s].devices) = 1
        /\ ret[s].err = ErrXML

\* C6: a read that fails with an error other than the timeout ends the call
\* with that error and exactly the devices accumulated so far, and no read
\* follows it.
C6_ReadErrorAborts ==
    [][\A s \in Sessions :
          /\ (pc[s] = "read" /\ ReadBroke(s)')
             => /\ Terminated(s)'
                /\ ret'[s].err = ErrRead
                /\ ret'[s].devices = discoveryResults[s]
                /\ discoveryResults'[s] = discoveryResults[s]
          /\ ReadBroke(s) => (lastCall'[s] = lastCall[s] /\ rcvd'[s] = rcvd[s])]_vars

C6_Witness ==
    \E s \in Sessions :
        /\ Terminated(s)
        /\ ReadBroke(s)
        /\ Len(ret[s].devices) = 2
        /\ ret[s].err = ErrRead

\* C7: a failed resolution, endpoint acquisition or send ends the call with a
\* non-nil error and an empty list, before any read; and with nothing
\* transmitted when it was the resolution or the acquisition that failed.
C7_SetupOrSendFailure ==
    \A s \in Sessions :
        (SetupFailed(s) \/ SendFailed(s))
        => /\ Terminated(s)
           /\ ret[s].err = lastCall[s].err
           /\ ret[s].err # Nil
           /\ ret[s].devices = <<>>
           /\ rcvd[s] = <<>>
           /\ (SetupFailed(s) => sent[s] = 0)

C7_Witness ==
    \E s, t \in Sessions :
        /\ Terminated(s) /\ SendFailed(s)
        /\ Terminated(t) /\ lastCall[t] = [call |-> "ListenUDP", err |-> ErrListen]

\* C8: a call that returns after it acquired the endpoint has closed it; no
\* terminated session holds an open endpoint.
C8_EndpointClosedOnExit ==
    \A s \in Sessions :
        Terminated(s) => conn[s] = (IF Acquired(s) THEN "closed" ELSE "none")

C8_Witness ==
    \E s, t \in Sessions :
        /\ Terminated(s) /\ ParseBroke(s) /\ conn[s] = "closed"
        /\ Terminated(t) /\ conn[t] = "closed"
        /\ lastCall[t] = [call |-> "SetDeadline", err |-> ErrSetDeadline]

\* C9: the probe is transmitted at most once, and exactly once in a session
\* that reached the loop, whatever was received or failed there.
C9_ProbeSentOnce ==
    \A s \in Sessions :
        /\ sent[s] <= 1
        /\ InLoop(s) => sent[s] = 1

C9_Witness ==
    \E s \in Sessions :
        /\ Terminated(s)
        /\ ReadBroke(s)
        /\ Len(rcvd[s]) = 2
        /\ \E i \in Replies(s) : Uncorrelated(s, rcvd[s][i])
        /\ sent[s] = 1

\* C10: the returned error is nil exactly when the call ended on a read
\* timeout, and it is never the uncorrelated-reply sentinel.
C10_NilErrorIffTimeout ==
    \A s \in Sessions :
        Terminated(s)
        => /\ (ret[s].err = Nil) <=> TimedOut(s)
           /\ ret[s].err # errWrongDiscoveryResponse

C10_Witness ==
    \E s, t \in Sessions :
        /\ Terminated(s) /\ TimedOut(s) /\ ret[s].err = Nil
        /\ \E i \in Replies(s) : Uncorrelated(s, rcvd[s][i])
        /\ Terminated(t) /\ ParseBroke(t) /\ ret[t].err = ErrXML

\* C14: reading an uncorrelated reply leaves the session listening: it does
\* not terminate, sets no error, leaves the list and the deadline as they
\* were, and the next step of the session is another read.
C14_UncorrelatedKeepsListening ==
    [][\A s \in Sessions :
          (/\ Len(rcvd'[s]) = Len(rcvd[s]) + 1
           /\ Uncorrelated(s, rcvd'[s][Len(rcvd'[s])]))
          => /\ pc'[s] = "read"
             /\ ret'[s] = NoRet
             /\ discoveryResults'[s] = discoveryResults[s]
             /\ deadline'[s] = deadline[s]]_vars

\* C15 as stated: the probe is transmitted first and the deadline is armed
\* after the send, so an armed deadline implies a transmitted probe.
C15_ArmedAfterSend ==
    \A s \in Sessions : deadlineSets[s] > 0 => sent[s] = 1

\* C15 as amended: the deadline is armed first, then the probe is
\* transmitted, then the loop reads: a transmitted probe implies an armed
\* deadline, and a session in the loop has both.
C15_ArmedThenSentThenListening ==
    \A s \in Sessions :
        /\ sent[s] > 0 => deadlineSets[s] = 1
        /\ pc[s] = "send" => (deadlineSets[s] = 1 /\ sent[s] = 0 /\ rcvd[s] = <<>>)
        /\ InLoop(s) => (deadlineSets[s] = 1 /\ sent[s] = 1)
        /\ rcvd[s] # <<>> => InLoop(s)

C15_Witness ==
    \E s, t \in Sessions :
        /\ pc[s] = "send" /\ deadlineSets[s] = 1 /\ sent[s] = 0
        /\ pc[t] = "read" /\ deadlineSets[t] = 1 /\ sent[t] = 1 /\ rcvd[t] # <<>>

\* C16: the deadline is set once per session, before the first read, to the
\* time of arming plus the caller's duration, and nothing changes it
\* afterwards: no step of the loop, whatever it read, sets it again.
C16_DeadlineSetOnce ==
    [][\A s \in Sessions :
          /\ (deadline'[s] # deadline[s] \/ deadlineSets'[s] # deadlineSets[s])
             => /\ deadlineSets[s] = 0
                /\ deadlineSets'[s] = 1
                /\ deadline'[s] = now + duration[s]
                /\ rcvd[s] = <<>>
                /\ ~InLoop(s)
          /\ deadlineSets'[s] <= 1
          /\ InLoop(s)' => deadlineSets'[s] = 1]_vars

C16_Witness ==
    \E s \in Sessions :
        /\ pc[s] = "read"
        /\ Len(rcvd[s]) = 2
        /\ deadlineSets[s] = 1
        /\ duration[s] > 0
        /\ deadline[s] > duration[s]

\* Everything a session owns.
SessionState(s) ==
    <<pc[s], duration[s], requestID[s], discoveryResults[s], conn[s], deferred[s],
      deadline[s], deadlineSets[s], sent[s], rcvd[s], lastCall[s], ret[s]>>

\* C18: with two sessions running concurrently, every step changes the state
\* of at most one of them (endpoint, deadline, identifier, list and the rest),
\* the identifiers of started sessions differ, and the step that closes one
\* session's endpoint leaves the other's as it was.
C18_SessionsIndependent ==
    [][\A s, t \in Sessions :
          s # t
          => /\ SessionState(s)' # SessionState(s)
                => SessionState(t)' = SessionState(t)
             /\ (pc'[s] # "idle" /\ pc'[t] # "idle")
                => requestID'[s] # requestID'[t]
             /\ (conn[s] = "open" /\ conn'[s] = "closed")
                => conn'[t] = conn[t]]_vars

C18_Witness ==
    \E s, t \in Sessions :
        /\ s # t
        /\ Terminated(s) /\ conn[s] = "closed" /\ rcvd[s] # <<>>
        /\ pc[t] = "read" /\ conn[t] = "open" /\ rcvd[t] # <<>>
        /\ deadlineSets[s] = 1 /\ deadlineSets[t] = 1
        /\ deadline[s] # deadline[t]

\* C19: the list only grows at its end: a step leaves it unchanged or, when a
\* datagram was read, appends exactly one element while keeping the elements
\* it had, in place; and it is never longer than the datagrams read so far.
C19_ListOnlyGrows ==
    [][\A s \in Sessions :
          LET old == discoveryResults[s]
              new == discoveryResults'[s]
          IN  /\ \/ new = old
                 \/ /\ Len(new) = Len(old) + 1
                    /\ SubSeq(new, 1, Len(old)) = old
                    /\ Len(rcvd'[s]) = Len(rcvd[s]) + 1
              /\ Len(new) <= Len(rcvd'[s])]_vars

C19_Witness ==
    \E s \in Sessions :
        /\ pc[s] = "read"
        /\ Len(discoveryResults[s]) = 2
        /\ discoveryResults[s][1] # discoveryResults[s][2]
        /\ discoveryResults[s][1] # ZeroDevice

\* C17: every started session terminates: once the clock has passed the
\* deadline the blocked read returns the timeout and the call returns,
\* whatever arrived before.
C17_EveryStartedSessionTerminates ==
    \A s \in Sessions : (pc[s] # "idle") ~> Terminated(s)

C17_Witness ==
    \E s \in Sessions :
        /\ Terminated(s)
        /\ TimedOut(s)
        /\ Len(rcvd[s]) = 2
        /\ now >= deadline[s]
        /\ duration[s] > 0
        /\ \E i \in Replies(s) : Correlated(s, rcvd[s][i])
        /\ \E i \in Replies(s) : Uncorrelated(s, rcvd[s][i])

\* What the parser claims speak of, read off the call's arguments.
Contains(s, sub) ==
    \E i \in 1..(Len(s) - Len(sub) + 1) : SubSeq(s, i, i + Len(sub) - 1) = sub
Called == parserReturn.done
Accepted == Called /\ parserReturn.err = Nil
CallField(path) ==
    IF path \in DOMAIN parserCall.buffer.doc
    THEN parserCall.buffer.doc[path] ELSE Str_empty
CallCorrelated ==
    /\ parserCall.buffer.wellFormed
    /\ PathRelatesTo \in DOMAIN parserCall.buffer.doc
    /\ parserCall.buffer.doc[PathRelatesTo] = parserCall.messageID

\* C11: whatever the endpoint-reference address of the reply, the ID of the
\* device readDiscoveryResponse produces does not contain "urn:uuid".
C11_IDWithoutUrnPrefix ==
    Accepted => ~Contains(parserReturn.device.ID, Str_urn_uuid)

\* The whitespace-separated tokens of a list.
RECURSIVE Fields(_)
Fields(s) ==
    IF s = Str_empty THEN <<>>
    ELSE IF s[1] \in Whitespace THEN Fields(Tail(s))
    ELSE LET stops == {i \in 1..Len(s) : s[i] \in Whitespace}
             end == IF stops = {} THEN Len(s) + 1
                    ELSE CHOOSE i \in stops : \A j \in stops : i <= j
         IN  <<SubSeq(s, 1, end - 1)>> \o Fields(SubSeq(s, end, Len(s)))

\* The name the claim describes: the first token with the name prefix, the
\* prefix cut off and each underscore turned into a space; empty without one.
NamedBy(tokens) ==
    LET named == {i \in 1..Len(tokens) : HasPrefix(tokens[i], Str_name_scope)}
    IN  IF named = {} THEN Str_empty
        ELSE LET first == CHOOSE i \in named : \A j \in named : i <= j
                 rest == SubSeq(tokens[first], Len(Str_name_scope) + 1,
                                Len(tokens[first]))
             IN  [i \in 1..Len(rest) |-> IF rest[i] = "_" THEN " " ELSE rest[i]]

\* C12: for every scope list of a correlated reply the reply is accepted and
\* the device's name is the one given by the first whitespace-separated scope
\* that starts with the name prefix, empty when there is none.
C12_NameFromFirstNameScope ==
    (Called /\ CallCorrelated)
    => /\ parserReturn.err = Nil
       /\ parserReturn.device.Name = NamedBy(Fields(CallField(PathScopes)))

\* C13: for every accepted reply that lists an address, XAddr is the first
\* whitespace-separated token of the list.
C13_XAddrIsFirstToken ==
    (Accepted /\ Fields(CallField(PathXAddrs)) # <<>>)
    => parserReturn.device.XAddr = Fields(CallField(PathXAddrs))[1]

\* C20: a call that returns an error returns the zero Device; a Device with a
\* field set comes only with a nil error.
C20_ErrorMeansZeroDevice ==
    Called => /\ parserReturn.err # Nil => parserReturn.device = ZeroDevice
              /\ parserReturn.device # ZeroDevice => parserReturn.err = Nil

\* A reply with an identifier, a name and addresses was refused as uncorrelated
\* and the zero Device came back with the error.
C20_Witness ==
    /\ Called
    /\ parserReturn.err = errWrongDiscoveryResponse
    /\ CallField(PathAddress) # Str_empty
    /\ CallField(PathScopes) # Str_empty
    /\ CallField(PathXAddrs) # Str_empty
    /\ parserReturn.device = ZeroDevice

====
